---------------------------- MODULE Spec2Model ----------------------------
(***************************************************************************)
(* Delivery Bot backend (src/main.py): one table `deliveries`, five JSON   *)
(* endpoints and a best-effort SMS notification after each mutation.       *)
(*                                                                         *)
(* FastAPI runs the synchronous handlers on a thread pool, so requests     *)
(* interleave.  A handler is cut at every access to shared state: a read   *)
(* of the wall clock, an SQL statement, the commit, the call of send_sms.  *)
(* The store is modelled with the semantics the SQL relies on: statements  *)
(* read committed rows, a written row stays private to its transaction and *)
(* locked until c.commit(), and a writer of a locked key waits.            *)
(***************************************************************************)
EXTENDS Integers, Sequences, FiniteSets, TLC

(* ------------------------------ bounds --------------------------------- *)
\* Requests accepted in one behaviour.
MaxRequests == 3
\* Last tick of the wall clock.
MaxClock == 1

(* ------------------------------ inputs --------------------------------- *)
\* The threads of the pool the synchronous handlers run on, in the order the
\* pool hands out work.
Pool == <<"t1", "t2">>
Workers == { Pool[i] : i \in DOMAIN Pool }
Orders == {"A1", "B2"}
Payloads ==
    { [pickup_location |-> "P1", drop_location |-> "D1", customer_contact |-> "+15551234567"],
      [pickup_location |-> "P2", drop_location |-> "D2", customer_contact |-> "+15557654321"] }
Locations == { [lat |-> -5, lon |-> 0] }
Statuses == {"completed", "failed", "in_transit"}
\* What the provider does with one messages.create call.
ProviderOutcomes == {"accepted", "error"}

(* ------------------------------ values --------------------------------- *)
\* A nullable Float column: NULL, or the stored double.
NULL == <<>>
Float(v) == <<v>>
\* fetchone() on an empty result.
NoRow == [id |-> 0]
NoPayload == [pickup_location |-> "", drop_location |-> "", customer_contact |-> ""]
NoLoc == [lat |-> 0, lon |-> 0]
NoResp == [code |-> 0]

VARIABLES
    deliveries,   \* the committed rows of table deliveries
    seq,          \* last value handed out for the primary key id
    tx,           \* per thread: rows written by its open transaction
    clock,        \* the wall clock datetime.utcnow() reads
    th,           \* per thread: the request it serves and the handler's locals
    out,          \* what the last step sent out: a response and its SMS attempts, if any
    started,      \* requests accepted so far
    inserted,     \* history: order_ids in the order their INSERT created a row
    created       \* history: order_ids whose create_delivery has committed

vars == <<deliveries, seq, tx, clock, th, out, started, inserted, created>>

Idle ==
    [ pc |-> "idle", op |-> "", order_id |-> "", payload |-> NoPayload, loc |-> NoLoc,
      new_status |-> "", now |-> 0, customer_contact |-> "", order_data |-> NoRow,
      committed |-> FALSE ]

NoOut == [ op |-> "", order_id |-> "", sent |-> <<>>, resp |-> NoResp ]

(* ------------------------------ the store ------------------------------ *)
\* SELECT ... FROM deliveries WHERE order_id = :order_id
SelectByOrderId(table, order_id) == { r \in table : r.order_id = order_id }

\* fetchone(): the first row of a result, None when it is empty.
fetchone(rows) == IF rows = {} THEN NoRow ELSE CHOOSE r \in rows : TRUE

\* Mutant: the conflict clause replaces the whole row, as INSERT OR REPLACE
\* would, keeping only the key.
InsertOnConflict_Replace(table, id, p, order_id, now) ==
    LET hit == { r \in table : r.order_id = order_id }
        ids == IF hit = {} THEN {id} ELSE { r.id : r \in hit }
    IN { [ id |-> i, order_id |-> order_id,
           pickup_location |-> p.pickup_location,
           drop_location |-> p.drop_location,
           customer_contact |-> p.customer_contact,
           status |-> "created", target_lat |-> NULL, target_lon |-> NULL,
           created_at |-> now, updated_at |-> now ] : i \in ids }

\* Mutant: a plain INSERT on a table without the unique constraint.
InsertOnConflict_NoConstraint(table, id, p, order_id, now) ==
    { [ id |-> id, order_id |-> order_id,
        pickup_location |-> p.pickup_location,
        drop_location |-> p.drop_location,
        customer_contact |-> p.customer_contact,
        status |-> "created", target_lat |-> NULL, target_lon |-> NULL,
        created_at |-> now, updated_at |-> now ] }

\* The rows an INSERT ... ON CONFLICT(order_id) DO UPDATE writes.
InsertOnConflict(table, id, p, order_id, now) ==
    LET hit == SelectByOrderId(table, order_id) IN
    IF hit = {}
    THEN { [ id |-> id, order_id |-> order_id,
             pickup_location |-> p.pickup_location,
             drop_location |-> p.drop_location,
             customer_contact |-> p.customer_contact,
             status |-> "created", target_lat |-> NULL, target_lon |-> NULL,
             created_at |-> now, updated_at |-> now ] }
    ELSE { [ r EXCEPT !.pickup_location = p.pickup_location,
                      !.drop_location = p.drop_location,
                      !.customer_contact = p.customer_contact,
                      !.updated_at = now ] : r \in hit }

\* Mutant: the two coordinates bound to each other's column.
UpdateLocation_Swapped(table, order_id, lat, lon, now) ==
    { [ r EXCEPT !.target_lat = Float(lon), !.target_lon = Float(lat),
                 !.status = "location_received", !.updated_at = now ]
      : r \in { q \in table : q.order_id = order_id } }

\* UPDATE deliveries SET target_lat, target_lon, status, updated_at WHERE order_id
UpdateLocation(table, order_id, lat, lon, now) ==
    { [ r EXCEPT !.target_lat = Float(lat), !.target_lon = Float(lon),
                 !.status = "location_received", !.updated_at = now ]
      : r \in SelectByOrderId(table, order_id) }

\* Mutant: the UPDATE without its WHERE clause.
UpdateStatus_NoWhere(table, order_id, status, now) ==
    { [ r EXCEPT !.status = status, !.updated_at = now ] : r \in table }

\* UPDATE deliveries SET status, updated_at WHERE order_id
UpdateStatus(table, order_id, status, now) ==
    { [ r EXCEPT !.status = status, !.updated_at = now ]
      : r \in SelectByOrderId(table, order_id) }

\* Mutant: the connection is closed without c.commit(), which rolls back.
commit_Forgotten(table, writes) == table

\* c.commit(): the transaction's row versions replace the committed ones.
commit(table, writes) ==
    { r \in table : \A v \in writes : v.id # r.id } \cup writes

\* Another transaction holds an uncommitted write on the key.
Locked(w, order_id) ==
    \E u \in Workers \ {w} : \E r \in tx[u] : r.order_id = order_id

\* datetime.utcnow(): the clock does not run backwards between two reads.
\* A timestamp is kept as its tick: isoformat() yields strings whose order is
\* the order of the instants, and the handlers only store and return them.
UtcNow == { t \in clock .. clock + 1 : t <= MaxClock }

(* ------------------------------ send_sms ------------------------------- *)
\* Mutant: the provider's exception is not caught.
send_sms_Raises(outcome) == IF outcome = "accepted" THEN "True" ELSE "raise"

\* True when the provider accepted the message; any exception is caught.
send_sms(outcome) == IF outcome = "accepted" THEN "True" ELSE "False"

Init ==
    /\ deliveries = {}
    /\ seq = 0
    /\ tx = [w \in Workers |-> {}]
    /\ clock = 0
    /\ th = [w \in Workers |-> Idle]
    /\ out = NoOut
    /\ started = 0
    /\ inserted = <<>>
    /\ created = {}

\* The first idle thread of the pool picks up the next request.
Free(w) ==
    /\ started < MaxRequests
    /\ \E i \in DOMAIN Pool :
         /\ Pool[i] = w
         /\ th[w].pc = "idle"
         /\ \A j \in DOMAIN Pool : j < i => th[Pool[j]].pc # "idle"

\* The handler returns: the response leaves and the thread is idle again.
Return(w, sent, response) ==
    /\ th' = [th EXCEPT ![w] = Idle]
    /\ out' = [ op |-> th[w].op, order_id |-> th[w].order_id, sent |-> sent,
                resp |-> response ]

\* An exception nobody catches leaves the handler: the framework answers 500.
Unhandled == [code |-> 500, body |-> [detail |-> "Internal Server Error"]]

\* raise HTTPException(status_code=404, detail="order not found")
NotFound == [code |-> 404, body |-> [detail |-> "order not found"]]

\* One call of send_sms by the handler thread w serves: the attempt is recorded,
\* and the handler goes on to its return statement unless the call raised.
Notify(w, to, message, outcome, response) ==
    LET result == send_sms(outcome) IN
    Return(w, << [to |-> to, message |-> message, result |-> result] >>,
           IF result \in {"True", "False"} THEN response ELSE Unhandled)

(* --------------------------- create_delivery --------------------------- *)
\* The text sent after a create: the order and its share link.
created_message(order_data) ==
    [ template |-> "received", order_id |-> order_data.order_id,
      link |-> <<"SERVER_URL", "share", order_data.order_id>> ]

\* The JSON create_delivery returns.
create_response(order_data) ==
    [ code |-> 200,
      body |-> [ status |-> "success",
                 order_id |-> order_data.order_id,
                 pickup |-> order_data.pickup_location,
                 drop |-> order_data.drop_location,
                 customer_contact |-> order_data.customer_contact,
                 db_id |-> order_data.id,
                 current_status |-> order_data.status,
                 created_at |-> order_data.created_at,
                 updated_at |-> order_data.updated_at ] ]

\* now = datetime.utcnow().isoformat(), read before the connection is opened.
create_begin(w, order_id, p) ==
    /\ Free(w)
    /\ \E t \in UtcNow :
         /\ clock' = t
         /\ th' = [th EXCEPT ![w] = [Idle EXCEPT !.pc = "create_execute",
                       !.op = "create_delivery", !.order_id = order_id,
                       !.payload = p, !.now = t]]
    /\ started' = started + 1
    /\ out' = NoOut
    /\ UNCHANGED <<deliveries, seq, tx, inserted, created>>

\* The upsert, then the SELECT of the row inside the same transaction.  The
\* id sequence hands out a value for the proposed row, and the value stays
\* consumed when the conflict clause updates the existing row instead.
create_execute(w) ==
    /\ th[w].pc = "create_execute"
    /\ ~Locked(w, th[w].order_id)
    /\ LET writes == InsertOnConflict(deliveries, seq + 1, th[w].payload,
                                      th[w].order_id, th[w].now)
           fresh == \E r \in writes : r.id = seq + 1
           row == fetchone(SelectByOrderId(commit(deliveries, writes), th[w].order_id))
       IN /\ tx' = [tx EXCEPT ![w] = writes]
          /\ seq' = seq + 1
          /\ inserted' = IF fresh THEN Append(inserted, th[w].order_id) ELSE inserted
          /\ th' = [th EXCEPT ![w].pc = "create_commit", ![w].order_data = row]
    /\ out' = NoOut
    /\ UNCHANGED <<deliveries, clock, started, created>>

create_commit(w) ==
    /\ th[w].pc = "create_commit"
    /\ deliveries' = commit(deliveries, tx[w])
    /\ tx' = [tx EXCEPT ![w] = {}]
    /\ created' = created \cup {th[w].order_id}
    /\ th' = [th EXCEPT ![w].pc = "create_notify", ![w].committed = TRUE]
    /\ out' = NoOut
    /\ UNCHANGED <<seq, clock, started, inserted>>

create_notify(w, outcome) ==
    /\ th[w].pc = "create_notify"
    /\ IF th[w].order_data = NoRow
       THEN Return(w, << >>, [code |-> 500,
                      body |-> [detail |-> "Failed to retrieve order after creation."]])
       ELSE Notify(w, th[w].order_data.customer_contact,
                   created_message(th[w].order_data), outcome,
                   create_response(th[w].order_data))
    /\ UNCHANGED <<deliveries, seq, tx, clock, started, inserted, created>>

(* --------------------------- list / get -------------------------------- *)
\* Mutant: ORDER BY id, ascending.
RECURSIVE OrderByIdAsc(_)
OrderByIdAsc(rows) ==
    IF rows = {} THEN <<>>
    ELSE LET low == CHOOSE r \in rows : \A q \in rows : r.id <= q.id
         IN <<low>> \o OrderByIdAsc(rows \ {low})

\* The rows of a table with the largest id first (ORDER BY id DESC).
RECURSIVE OrderByIdDesc(_)
OrderByIdDesc(rows) ==
    IF rows = {} THEN <<>>
    ELSE LET top == CHOOSE r \in rows : \A q \in rows : q.id <= r.id
         IN <<top>> \o OrderByIdDesc(rows \ {top})

list_deliveries(w) ==
    /\ Free(w)
    /\ out' = [ op |-> "list_deliveries", order_id |-> "", sent |-> << >>,
                resp |-> [code |-> 200, body |-> OrderByIdDesc(deliveries)] ]
    /\ started' = started + 1
    /\ UNCHANGED <<deliveries, seq, tx, clock, th, inserted, created>>

\* What get_delivery answers on a table.
get_response(table, order_id) ==
    LET row == fetchone(SelectByOrderId(table, order_id)) IN
    IF row = NoRow THEN NotFound ELSE [code |-> 200, body |-> row]

get_delivery(w, order_id) ==
    /\ Free(w)
    /\ out' = [ op |-> "get_delivery", order_id |-> order_id, sent |-> << >>,
                resp |-> get_response(deliveries, order_id) ]
    /\ started' = started + 1
    /\ UNCHANGED <<deliveries, seq, tx, clock, th, inserted, created>>

(* ------------------- the contact lookup of the updates ----------------- *)
\* Mutant: the SELECT without its WHERE clause.
select_contact_NoWhere(table, order_id) == fetchone(table)

\* SELECT customer_contact FROM deliveries WHERE order_id = :order_id, and
\* fetchone(): the row, or None, with which both update handlers begin.
select_contact(table, order_id) == fetchone(SelectByOrderId(table, order_id))

(* ------------------------- set_target_location ------------------------- *)
location_message(order_id) == [ template |-> "location_received", order_id |-> order_id ]

location_response(order_id, loc) ==
    [ code |-> 200,
      body |-> [ status |-> "ok", order_id |-> order_id, lat |-> loc.lat, lon |-> loc.lon,
                 current_status |-> "location_received" ] ]

\* The SELECT of the contact, and the 404 when there is no row.
location_select(w, order_id, loc) ==
    /\ Free(w)
    /\ LET row == select_contact(deliveries, order_id) IN
       IF row = NoRow
       THEN /\ out' = [ op |-> "set_target_location", order_id |-> order_id, sent |-> << >>,
                        resp |-> NotFound ]
            /\ UNCHANGED th
       ELSE /\ th' = [th EXCEPT ![w] = [Idle EXCEPT !.pc = "location_clock",
                          !.op = "set_target_location", !.order_id = order_id, !.loc = loc,
                          !.customer_contact = row.customer_contact]]
            /\ out' = NoOut
    /\ started' = started + 1
    /\ UNCHANGED <<deliveries, seq, tx, clock, inserted, created>>

\* datetime.utcnow().isoformat() is evaluated before c.execute is entered.
location_clock(w) ==
    /\ th[w].pc = "location_clock"
    /\ \E t \in UtcNow :
         /\ clock' = t
         /\ th' = [th EXCEPT ![w].pc = "location_update", ![w].now = t]
    /\ out' = NoOut
    /\ UNCHANGED <<deliveries, seq, tx, started, inserted, created>>

location_update(w) ==
    /\ th[w].pc = "location_update"
    /\ ~Locked(w, th[w].order_id)
    /\ tx' = [tx EXCEPT ![w] = UpdateLocation(deliveries, th[w].order_id,
                                    th[w].loc.lat, th[w].loc.lon, th[w].now)]
    /\ th' = [th EXCEPT ![w].pc = "location_commit"]
    /\ out' = NoOut
    /\ UNCHANGED <<deliveries, seq, clock, started, inserted, created>>

location_commit(w) ==
    /\ th[w].pc = "location_commit"
    /\ deliveries' = commit(deliveries, tx[w])
    /\ tx' = [tx EXCEPT ![w] = {}]
    /\ th' = [th EXCEPT ![w].pc = "location_notify", ![w].committed = TRUE]
    /\ out' = NoOut
    /\ UNCHANGED <<seq, clock, started, inserted, created>>

location_notify(w, outcome) ==
    /\ th[w].pc = "location_notify"
    /\ Notify(w, th[w].customer_contact, location_message(th[w].order_id), outcome,
              location_response(th[w].order_id, th[w].loc))
    /\ UNCHANGED <<deliveries, seq, tx, clock, started, inserted, created>>

(* ----------------------------- update_status --------------------------- *)
\* Mutant: every status but "failed" is announced as a delivery.
status_messages_Any(new_status, order_id) ==
    IF new_status = "failed"
    THEN << [ template |-> "delivery_failed", order_id |-> order_id ] >>
    ELSE << [ template |-> "delivered", order_id |-> order_id ] >>

\* The texts update_status sends for a status: one for "completed", one for
\* "failed", none for anything else.
status_messages(new_status, order_id) ==
    IF new_status = "completed"
    THEN << [ template |-> "delivered", order_id |-> order_id ] >>
    ELSE IF new_status = "failed"
    THEN << [ template |-> "delivery_failed", order_id |-> order_id ] >>
    ELSE << >>

status_response(order_id, new_status) ==
    [ code |-> 200,
      body |-> [ status |-> "ok", order_id |-> order_id, current_status |-> new_status ] ]

status_select(w, order_id, new_status) ==
    /\ Free(w)
    /\ LET row == select_contact(deliveries, order_id) IN
       IF row = NoRow
       THEN /\ out' = [ op |-> "update_status", order_id |-> order_id, sent |-> << >>,
                        resp |-> NotFound ]
            /\ UNCHANGED th
       ELSE /\ th' = [th EXCEPT ![w] = [Idle EXCEPT !.pc = "status_clock",
                          !.op = "update_status", !.order_id = order_id, !.new_status = new_status,
                          !.customer_contact = row.customer_contact]]
            /\ out' = NoOut
    /\ started' = started + 1
    /\ UNCHANGED <<deliveries, seq, tx, clock, inserted, created>>

status_clock(w) ==
    /\ th[w].pc = "status_clock"
    /\ \E t \in UtcNow :
         /\ clock' = t
         /\ th' = [th EXCEPT ![w].pc = "status_update", ![w].now = t]
    /\ out' = NoOut
    /\ UNCHANGED <<deliveries, seq, tx, started, inserted, created>>

status_update(w) ==
    /\ th[w].pc = "status_update"
    /\ ~Locked(w, th[w].order_id)
    /\ tx' = [tx EXCEPT ![w] = UpdateStatus(deliveries, th[w].order_id,
                                    th[w].new_status, th[w].now)]
    /\ th' = [th EXCEPT ![w].pc = "status_commit"]
    /\ out' = NoOut
    /\ UNCHANGED <<deliveries, seq, clock, started, inserted, created>>

status_commit(w) ==
    /\ th[w].pc = "status_commit"
    /\ deliveries' = commit(deliveries, tx[w])
    /\ tx' = [tx EXCEPT ![w] = {}]
    /\ th' = [th EXCEPT ![w].pc = "status_notify", ![w].committed = TRUE]
    /\ out' = NoOut
    /\ UNCHANGED <<seq, clock, started, inserted, created>>

status_notify(w, outcome) ==
    /\ th[w].pc = "status_notify"
    /\ LET messages == status_messages(th[w].new_status, th[w].order_id) IN
       IF messages = << >>
       THEN Return(w, << >>, status_response(th[w].order_id, th[w].new_status))
       ELSE Notify(w, th[w].customer_contact, messages[1], outcome,
                   status_response(th[w].order_id, th[w].new_status))
    /\ UNCHANGED <<deliveries, seq, tx, clock, started, inserted, created>>

(* ------------------------------ behaviours ----------------------------- *)
Next ==
    \E w \in Workers :
        \/ \E o \in Orders, p \in Payloads : create_begin(w, o, p)
        \/ create_execute(w)
        \/ create_commit(w)
        \/ \E outcome \in ProviderOutcomes : create_notify(w, outcome)
        \/ list_deliveries(w)
        \/ \E o \in Orders : get_delivery(w, o)
        \/ \E o \in Orders, loc \in Locations : location_select(w, o, loc)
        \/ location_clock(w)
        \/ location_update(w)
        \/ location_commit(w)
        \/ \E outcome \in ProviderOutcomes : location_notify(w, outcome)
        \/ \E o \in Orders, s \in Statuses : status_select(w, o, s)
        \/ status_clock(w)
        \/ status_update(w)
        \/ status_commit(w)
        \/ \E outcome \in ProviderOutcomes : status_notify(w, outcome)

Spec == Init /\ [][Next]_vars

(* ------------------------------ properties ----------------------------- *)
\* Thread w takes the step that leads its handler from one place to the next.
Step(w, from, to) == th[w].pc = from /\ th'[w].pc = to

\* The committed records of an order.
RecordsOf(table, order_id) == { r \in table : r.order_id = order_id }

\* C1: create_delivery on an order_id that already has a record keeps exactly
\* one record for it: pickup_location, drop_location, customer_contact and
\* updated_at become those of this call, and id, status, created_at,
\* target_lat and target_lon stay as they were, whatever the status was.
C1_UpsertKeepsRecord ==
    [][ \A w \in Workers :
          (Step(w, "create_commit", "create_notify")
             /\ RecordsOf(deliveries, th[w].order_id) # {})
          => \E old \in RecordsOf(deliveries, th[w].order_id) :
               RecordsOf(deliveries', th[w].order_id) =
                 { [ id |-> old.id, order_id |-> th[w].order_id,
                     pickup_location |-> th[w].payload.pickup_location,
                     drop_location |-> th[w].payload.drop_location,
                     customer_contact |-> th[w].payload.customer_contact,
                     status |-> old.status,
                     target_lat |-> old.target_lat, target_lon |-> old.target_lon,
                     created_at |-> old.created_at,
                     updated_at |-> th[w].now ] } ]_vars

\* A second create on an order that has received its location has committed:
\* the record carries the new pickup and still the status and the location.
C1_Witness ==
    \E w \in Workers :
      /\ th[w].pc = "create_notify"
      /\ th[w].order_data \in deliveries
      /\ th[w].order_data.status = "location_received"
      /\ th[w].order_data.target_lat # NULL
      /\ th[w].order_data.pickup_location = th[w].payload.pickup_location
      /\ th[w].order_data.created_at < th[w].order_data.updated_at

\* C2: at most one record exists per order_id in every reachable state; of
\* two concurrent creates on one order_id the later merges into the row of
\* the earlier, and the record carries the pickup, drop and contact of the
\* create that committed last.
C2_OneRecordPerOrder ==
    [][ /\ \A o \in Orders : Cardinality(RecordsOf(deliveries', o)) <= 1
        /\ Cardinality({ r.id : r \in deliveries' }) = Cardinality(deliveries')
        /\ \A w \in Workers :
             Step(w, "create_commit", "create_notify")
             => \A r \in RecordsOf(deliveries', th[w].order_id) :
                  /\ r.pickup_location = th[w].payload.pickup_location
                  /\ r.drop_location = th[w].payload.drop_location
                  /\ r.customer_contact = th[w].payload.customer_contact ]_vars

\* Two creates on one order_id overlap: the one that read the clock first
\* writes last, and its upsert merges into the row the other has committed.
C2_Witness ==
    \E w, u \in Workers :
      /\ w # u
      /\ th[w].op = "create_delivery" /\ th[u].op = "create_delivery"
      /\ th[w].order_id = th[u].order_id
      /\ th[w].payload # th[u].payload
      /\ th[w].now < th[u].now
      /\ th[u].pc = "create_notify"
      /\ th[w].pc = "create_commit"
      /\ \E v \in tx[w] : v.id = th[u].order_data.id

\* The response each mutating handler returns, from what it holds before it
\* notifies.
ExpectedResponse(w) ==
    IF th[w].op = "create_delivery"
    THEN [ code |-> 200,
           body |-> [ status |-> "success",
                      order_id |-> th[w].order_id,
                      pickup |-> th[w].order_data.pickup_location,
                      drop |-> th[w].order_data.drop_location,
                      customer_contact |-> th[w].order_data.customer_contact,
                      db_id |-> th[w].order_data.id,
                      current_status |-> th[w].order_data.status,
                      created_at |-> th[w].order_data.created_at,
                      updated_at |-> th[w].order_data.updated_at ] ]
    ELSE IF th[w].op = "set_target_location"
    THEN [ code |-> 200,
           body |-> [ status |-> "ok", order_id |-> th[w].order_id,
                      lat |-> th[w].loc.lat, lon |-> th[w].loc.lon,
                      current_status |-> "location_received" ] ]
    ELSE [ code |-> 200,
           body |-> [ status |-> "ok", order_id |-> th[w].order_id,
                      current_status |-> th[w].new_status ] ]

NotifyPlaces == {"create_notify", "location_notify", "status_notify"}

\* C3: a mutating handler notifies only after its store change is committed;
\* the notification changes no record, send_sms returns true or false and
\* never raises, and the response is the same for either result.
C3_NotifyAfterCommit ==
    [][ \A w \in Workers :
          (th[w].pc \in NotifyPlaces /\ th'[w].pc = "idle")
          => /\ th[w].committed
             /\ tx[w] = {}
             /\ deliveries' = deliveries
             /\ out'.resp = ExpectedResponse(w)
             /\ \A i \in DOMAIN out'.sent : out'.sent[i].result \in {"True", "False"} ]_vars

\* A handler has answered 200 although the provider refused its message.
C3_Witness ==
    /\ out.resp.code = 200
    /\ out.sent # << >>
    /\ out.sent[1].result = "False"
    /\ \E r \in deliveries : r.order_id = out.order_id

\* C4: update_status on an existing order stores new_status verbatim, and
\* attempts one notification for "completed", one for "failed" (each with its
\* own text, to the contact the handler read from the order's record), none
\* for any other value; no attempt is repeated.
C4_StatusNotifications ==
    [][ /\ Len(out'.sent) <= 1
        /\ \A w \in Workers :
             /\ Step(w, "idle", "status_clock")
                => \E r \in RecordsOf(deliveries, th'[w].order_id) :
                     th'[w].customer_contact = r.customer_contact
             /\ Step(w, "status_commit", "status_notify")
                => /\ RecordsOf(deliveries', th[w].order_id) # {}
                   /\ \A r \in RecordsOf(deliveries', th[w].order_id) :
                        r.status = th[w].new_status
             /\ Step(w, "status_notify", "idle")
                => /\ th[w].new_status = "completed"
                      => /\ Len(out'.sent) = 1
                         /\ out'.sent[1].to = th[w].customer_contact
                         /\ out'.sent[1].message =
                              [template |-> "delivered", order_id |-> th[w].order_id]
                   /\ th[w].new_status = "failed"
                      => /\ Len(out'.sent) = 1
                         /\ out'.sent[1].to = th[w].customer_contact
                         /\ out'.sent[1].message =
                              [template |-> "delivery_failed", order_id |-> th[w].order_id]
                   /\ th[w].new_status \notin {"completed", "failed"}
                      => out'.sent = << >> ]_vars

\* update_status has stored "failed" and made its one attempt.
C4_Witness ==
    /\ out.op = "update_status"
    /\ Len(out.sent) = 1
    /\ out.sent[1].message.template = "delivery_failed"
    /\ \E r \in deliveries : r.order_id = out.order_id /\ r.status = "failed"

Updaters == {"set_target_location", "update_status"}

\* C5: set_target_location and update_status on an order_id without a record
\* answer 404, write nothing and attempt no notification.
C5_UnknownOrderNotFound ==
    [][ /\ \A w \in Workers :
             (th[w].pc = "idle" /\ th'[w].pc # "idle" /\ th'[w].op \in Updaters)
             => RecordsOf(deliveries, th'[w].order_id) # {}
        /\ (out'.op \in Updaters /\ RecordsOf(deliveries, out'.order_id) = {})
             => /\ out'.resp = [code |-> 404, body |-> [detail |-> "order not found"]]
                /\ out'.sent = << >>
                /\ deliveries' = deliveries
                /\ tx' = tx ]_vars

\* An update for an order without a record was answered 404 while the table
\* held another order.
C5_Witness ==
    /\ out.op \in Updaters
    /\ out.resp.code = 404
    /\ deliveries # {}
    /\ RecordsOf(deliveries, out.order_id) = {}

\* C6: set_target_location on an existing order, whatever its status, sets
\* status to "location_received" and target_lat/target_lon to the supplied
\* values, which get_delivery then returns; pickup, drop, contact, created_at
\* and id stay as they were, and one notification is attempted.
C6_LocationStored ==
    [][ \A w \in Workers :
          /\ Step(w, "location_commit", "location_notify")
             => /\ \E old \in RecordsOf(deliveries, th[w].order_id) :
                     RecordsOf(deliveries', th[w].order_id) =
                       { [ id |-> old.id, order_id |-> old.order_id,
                           pickup_location |-> old.pickup_location,
                           drop_location |-> old.drop_location,
                           customer_contact |-> old.customer_contact,
                           status |-> "location_received",
                           target_lat |-> Float(th[w].loc.lat),
                           target_lon |-> Float(th[w].loc.lon),
                           created_at |-> old.created_at,
                           updated_at |-> th[w].now ] }
                /\ get_response(deliveries', th[w].order_id).code = 200
                /\ get_response(deliveries', th[w].order_id).body.target_lat
                     = Float(th[w].loc.lat)
                /\ get_response(deliveries', th[w].order_id).body.target_lon
                     = Float(th[w].loc.lon)
          /\ Step(w, "location_notify", "idle")
             => /\ Len(out'.sent) = 1
                /\ out'.sent[1].message.template = "location_received" ]_vars

\* set_target_location has written an order whose status is "completed".
C6_Witness ==
    \E w \in Workers :
      /\ th[w].pc = "location_commit"
      /\ \E r \in RecordsOf(deliveries, th[w].order_id) : r.status = "completed"
      /\ \E v \in tx[w] : v.status = "location_received" /\ v.target_lat = Float(th[w].loc.lat)

\* The order_ids of a sequence of first insertions, latest first, among the
\* ones that are committed.
RECURSIVE LatestFirst(_, _)
LatestFirst(log, table) ==
    IF log = << >> THEN << >>
    ELSE LET rest == LatestFirst(SubSeq(log, 1, Len(log) - 1), table)
             last == log[Len(log)]
         IN IF RecordsOf(table, last) = {} THEN rest ELSE <<last>> \o rest

\* C7: list_deliveries returns every record once, in strictly descending id
\* order, which is the reverse order of first insertion; an upsert or an
\* update changes neither the id nor the position of a record.
C7_ListingOrder ==
    LET listing == OrderByIdDesc(deliveries) IN
    /\ Len(listing) = Cardinality(deliveries)
    /\ { listing[i] : i \in DOMAIN listing } = deliveries
    /\ \A i, j \in DOMAIN listing : i < j => listing[i].id > listing[j].id
    /\ [ i \in DOMAIN listing |-> listing[i].order_id ] = LatestFirst(inserted, deliveries)

\* The order inserted first was written again after the second was inserted,
\* and is still listed last.
C7_Witness ==
    LET listing == OrderByIdDesc(deliveries) IN
    /\ Len(listing) = Cardinality(Orders)
    /\ listing[Len(listing)].updated_at > listing[Len(listing)].created_at
    /\ listing[Len(listing)].updated_at > listing[1].updated_at
    /\ listing[Len(listing)].order_id = inserted[1]

\* C8: get_delivery answers 404 exactly when no create_delivery for the
\* order_id has committed; no record is ever deleted, so once a create has
\* committed, get_delivery, set_target_location and update_status find it.
C8_FoundOnceCreated ==
    [][ /\ \A o \in Orders : (o \in created') <=> (RecordsOf(deliveries', o) # {})
        /\ \A r \in deliveries : RecordsOf(deliveries', r.order_id) # {}
        /\ out'.op \in {"get_delivery"} \cup Updaters
             => (out'.resp.code = 404 <=> out'.order_id \notin created) ]_vars

\* get_delivery has returned the record of an order that was updated after
\* its creation.
C8_Witness ==
    /\ out.op = "get_delivery"
    /\ out.resp.code = 200
    /\ out.resp.body.status # "created"
    /\ out.order_id \in created

CommitPlaces == {"create_commit", "location_commit", "status_commit"}

\* C9: an operation addressed to one order_id leaves the records of every
\* other order_id as they were, however the requests interleave.
C9_OtherOrdersUnchanged ==
    [][ \A o \in Orders :
          RecordsOf(deliveries', o) # RecordsOf(deliveries, o)
          => \E w \in Workers :
               /\ th[w].order_id = o
               /\ th[w].pc \in CommitPlaces
               /\ th'[w].pc # th[w].pc ]_vars

\* update_status has committed on one order while a create of the other
\* order is under way, and the other order's record is as created.
C9_Witness ==
    \E w, u \in Workers :
      /\ th[w].pc = "status_notify"
      /\ th[u].op = "create_delivery"
      /\ th[u].order_id # th[w].order_id
      /\ \E r \in RecordsOf(deliveries, th[u].order_id) : r.status = "created"
      /\ \E r \in RecordsOf(deliveries, th[w].order_id) : r.status = th[w].new_status

\* C10: updated_at never moves backwards: every committed write leaves it
\* greater than or equal to its previous value, so it is never earlier than
\* created_at, also when requests interleave between a request's read of the
\* clock and the commit of its write.
C10_UpdatedAtMonotone ==
    [][ /\ \A r \in deliveries : \A q \in deliveries' :
             q.id = r.id => q.updated_at >= r.updated_at
        /\ \A q \in deliveries' : q.updated_at >= q.created_at ]_vars

=============================================================================
